---- MODULE Spec2Model ----
(***************************************************************************)
(* Model of the osu!mania difficulty facade (ManiaStars) of rosu-pp and of *)
(* the timing-window mapper (difficulty_range) of the osu crate.           *)
(*                                                                         *)
(* f64/f32 values are modelled exactly: times, rates and windows are       *)
(* fractions <<n, d>> in lowest terms with d >= 0, where d = 0 encodes the *)
(* IEEE results of a division by zero (<<1,0>> = +inf, <<-1,0>> = -inf,    *)
(* <<0,0>> = NaN).  Strain values are fixed-point thousandths.             *)
(* Option<T> is a sequence: <<>> is None, <<v>> is Some(v).                *)
(***************************************************************************)
EXTENDS Integers, Sequences, FiniteSets, TLC

\* ---------------------------------------------------------------- bounds
MaxNotes == 3
MaxTimeSteps == 4

\* ------------------------------------------------------- program constants
SECTION_LEN == 400
\* STAR_SCALING_FACTOR = 0.018, in thousandths
STAR_SCALING_FACTOR == 18

HITWINDOW_OD_MIN == 80
HITWINDOW_OD_AVG == 50
HITWINDOW_OD_MAX == 20

HITWINDOW_AR_MIN == 1800
HITWINDOW_AR_AVG == 1200
HITWINDOW_AR_MAX == 450

\* ------------------------------------------------------------- arithmetic
Abs(x) == IF x < 0 THEN 0 - x ELSE x

Sign(x) == IF x < 0 THEN 0 - 1 ELSE IF x > 0 THEN 1 ELSE 0

Min(a, b) == IF a < b THEN a ELSE b

Max(a, b) == IF a > b THEN a ELSE b

RECURSIVE GCD(_, _)
GCD(a, b) == IF b = 0 THEN a ELSE GCD(b, a % b)

\* the value n / d of an f64 division, in lowest terms
Frac(n, d) ==
    IF d = 0 THEN <<Sign(n), 0>>
    ELSE LET g == GCD(Abs(n), Abs(d))
             s == Sign(d)
         IN <<(s * n) \div g, (s * d) \div g>>

FromInt(i) == <<i, 1>>

NaN == <<0, 0>>

IsFinite(f) == f[2] # 0

FracDiv(a, b) == Frac(a[1] * b[2], a[2] * b[1])

FracMul(a, b) == Frac(a[1] * b[1], a[2] * b[2])

FracSub(a, b) ==
    IF IsFinite(a) /\ IsFinite(b) THEN Frac(a[1] * b[2] - b[1] * a[2], a[2] * b[2])
    ELSE IF a = NaN \/ b = NaN THEN NaN
    ELSE IF IsFinite(b) THEN a
    ELSE IF IsFinite(a) THEN <<0 - b[1], 0>>
    ELSE IF a = b THEN NaN
    ELSE a

FracAdd(a, b) == FracSub(a, <<0 - b[1], b[2]>>)

\* a > b on f64 (false whenever a NaN is involved)
FracGT(a, b) ==
    IF a = NaN \/ b = NaN THEN FALSE
    ELSE IF IsFinite(a) /\ IsFinite(b) THEN a[1] * b[2] > b[1] * a[2]
    ELSE IF IsFinite(b) THEN a[1] > 0
    ELSE IF IsFinite(a) THEN b[1] < 0
    ELSE a[1] > b[1]

\* ceil of a finite fraction
FracCeil(f) == 0 - ((0 - f[1]) \div f[2])

\* floor of a finite fraction
FracFloor(f) == f[1] \div f[2]

\* ------------------------------------------------------------- Option<T>
None == <<>>

Some(v) == <<v>>

UnwrapOr(opt, default) == IF opt = None THEN default ELSE opt[1]

\* ------------------------------------------------------------- iterators
TakeAll(s, n) == s

Take(s, n) == SubSeq(s, 1, Min(n, Len(s)))

SkipNone(s, n) == s

Skip(s, n) == SubSeq(s, n + 1, Len(s))

EnumerateFromOne(s) == [k \in 1..Len(s) |-> <<k, s[k]>>]

Enumerate(s) == [k \in 1..Len(s) |-> <<k - 1, s[k]>>]

Zip(a, b) == [k \in 1..Min(Len(a), Len(b)) |-> <<a[k], b[k]>>]

\* ------------------------------------------------------------------ chart
\* note timestamps in ms, a time-ascending list (the chart provider's guarantee)
RawTimes == {k * 150 : k \in 0..MaxTimeSteps}

TimeLists ==
    UNION {{s \in [1..n -> RawTimes] : \A i \in 1..(n - 1) : s[i] <= s[i + 1]} : n \in 0..MaxNotes}

\* a hit object: its position in the chart, start time and x position
HitObjects(times) ==
    [i \in 1..Len(times) |->
        [id |-> i - 1, start_time |-> times[i], x |-> IF i % 2 = 1 THEN 64 ELSE 448]]

\* circle size (= key count) in tenths, overall difficulty, authored mode
Beatmaps ==
    {[hit_objects |-> HitObjects(t), cs |-> cs, od |-> 8, mode |-> m] :
        t \in TimeLists, cs \in {4, 15}, m \in {"Osu", "Mania"}}

\* map.cs.round().max(1.0)
TotalColumns(cs) == Max((cs + 5) \div 10, 1)

\* ------------------------------------------------------------------- mods
\* modifier bit values: HD = 8, DT = 64, HT = 256
ModsSet == {0, 8 + 64, 256}

HasBit(mods, bit) == (mods \div bit) % 2 = 1

\* Mods::clock_rate: 1.5 for DT, 0.75 for HT and 1.0 otherwise
ModsClockRate(mods) ==
    IF HasBit(mods, 64) THEN <<3, 2>>
    ELSE IF HasBit(mods, 256) THEN <<3, 4>>
    ELSE <<1, 1>>

\* explicit clock rates a caller may pass (f64, not validated)
ClockRates == {<<1, 2>>, <<0, 1>>, <<0 - 1, 1>>}

\* ------------------------------------------------------- difficulty_range
\* val is a fraction; max/avg/min are the windows at settings 10/5/0
difficulty_range_div10(val, max, avg, min) ==
    IF FracGT(val, FromInt(5))
    THEN FracAdd(FromInt(avg),
                 FracDiv(FracMul(FromInt(max - avg), FracSub(val, FromInt(5))), FromInt(10)))
    ELSE IF FracGT(FromInt(5), val)
    THEN FracSub(FromInt(avg),
                 FracDiv(FracMul(FromInt(avg - min), FracSub(FromInt(5), val)), FromInt(10)))
    ELSE FromInt(avg)

difficulty_range(val, max, avg, min) ==
    IF FracGT(val, FromInt(5))
    THEN FracAdd(FromInt(avg),
                 FracDiv(FracMul(FromInt(max - avg), FracSub(val, FromInt(5))), FromInt(5)))
    ELSE IF FracGT(FromInt(5), val)
    THEN FracSub(FromInt(avg),
                 FracDiv(FracMul(FromInt(avg - min), FracSub(FromInt(5), val)), FromInt(5)))
    ELSE FromInt(avg)

difficulty_range_od(od) ==
    difficulty_range(od, HITWINDOW_OD_MAX, HITWINDOW_OD_AVG, HITWINDOW_OD_MIN)

difficulty_range_ar(ar) ==
    difficulty_range(ar, HITWINDOW_AR_MAX, HITWINDOW_AR_AVG, HITWINDOW_AR_MIN)

\* BeatmapAttributesBuilder::hit_windows().od: the resolved timing window,
\* inclusive of the rate
HitWindowOd(map, mods, converted, clock_rate) ==
    FracDiv(difficulty_range_od(FromInt(map.od)), clock_rate)

\* ------------------------------------------------------ difficulty objects
ManiaObjectNew(h) == h

Column(x, total_columns) == Min((x * total_columns) \div 512, total_columns - 1)

\* ManiaDifficultyObject::new(base, prev, clock_rate, total_columns, idx)
ManiaDifficultyObjectNew(base, prev, clock_rate, total_columns, idx) ==
    LET start_time == FracDiv(FromInt(base.start_time), clock_rate)
        prev_time == FracDiv(FromInt(prev.start_time), clock_rate)
    IN [idx |-> idx,
        base |-> base,
        prev |-> prev,
        start_time |-> start_time,
        delta_time |-> FracSub(start_time, prev_time),
        column |-> Column(base.x, total_columns)]

TakeCountOffByOne(passed_objects, hit_objects) ==
    IF passed_objects = None THEN Len(hit_objects) ELSE Max(passed_objects[1] - 1, 0)

\* passed_objects.unwrap_or(map.hit_objects.len())
TakeCount(passed_objects, hit_objects) == UnwrapOr(passed_objects, Len(hit_objects))

ResolveClockRateNoOverride(clock_rate, mods) == ModsClockRate(mods)

\* clock_rate.unwrap_or_else(|| mods.clock_rate())
ResolveClockRate(clock_rate, mods) == UnwrapOr(clock_rate, ModsClockRate(mods))

\* the iterator chain take(take).skip(1).map().enumerate().zip(all).map(new)
DiffObjectsIter(hit_objects, take, clock_rate, total_columns) ==
    LET bases == Enumerate([k \in DOMAIN Skip(Take(hit_objects, take), 1) |->
                               ManiaObjectNew(Skip(Take(hit_objects, take), 1)[k])])
        prevs == [k \in DOMAIN hit_objects |-> ManiaObjectNew(hit_objects[k])]
        pairs == Zip(bases, prevs)
    IN [k \in DOMAIN pairs |->
           ManiaDifficultyObjectNew(pairs[k][1][2], pairs[k][2], clock_rate,
                                    total_columns, pairs[k][1][1])]

DiffObjectsUnscaled(hit_objects, take, clock_rate, total_columns) ==
    DiffObjectsIter(hit_objects, take, <<1, 1>>, total_columns)

\* diff_objects.extend(diff_objects_iter)
DiffObjects(hit_objects, take, clock_rate, total_columns) ==
    DiffObjectsIter(hit_objects, take, clock_rate, total_columns)

\* Vec::with_capacity(map.hit_objects.len().min(take).saturating_sub(1))
Capacity(hit_objects, take) == Max(Min(Len(hit_objects), take) - 1, 0)

\* ----------------------------------------------------------- Strain skill
\* strain decays by 0.9 per DecayTick ms (0.125 per 1000 ms)
DecayTick == 50

RECURSIVE DecayBy(_, _)
DecayBy(value, ticks) ==
    IF ticks <= 0 \/ value = 0 THEN value ELSE DecayBy((value * 9) \div 10, ticks - 1)

\* value * decay(dt) for a finite dt
Decay(value, dt) == DecayBy(value, FracFloor(FracDiv(dt, FromInt(DecayTick))))

RECURSIVE SumLanes(_, _)
SumLanes(individual, n) ==
    IF n = 0 THEN 0 ELSE individual[n - 1] + SumLanes(individual, n - 1)

TotalStrain(individual) == SumLanes(individual, Cardinality(DOMAIN individual))

\* Strain::new(total_columns); calls counts the process() calls so far and
\* section_ends remembers the boundary each peak was closed at
StrainNew(total_columns) ==
    [individual |-> [c \in 0..(total_columns - 1) |-> 0],
     curr_section_end |-> 0,
     curr_section_peak |-> 0,
     strain_peaks |-> <<>>,
     section_ends |-> <<>>,
     calls |-> 0,
     undefined |-> FALSE]

\* save the current peak and start a new section, while the object lies
\* beyond the current section end
RECURSIVE CloseSections(_, _, _)
CloseSections(strain, start_time, prev_time) ==
    IF FracGT(start_time, FromInt(strain.curr_section_end))
    THEN CloseSections(
             [strain EXCEPT
                 !.strain_peaks = Append(@, strain.curr_section_peak),
                 !.section_ends = Append(@, strain.curr_section_end),
                 !.curr_section_peak =
                     Decay(TotalStrain(strain.individual),
                           FracSub(FromInt(strain.curr_section_end), prev_time)),
                 !.curr_section_end = @ + SECTION_LEN],
             start_time, prev_time)
    ELSE strain

\* the first object's time snapped to the section length
FirstSectionEnd(start_time) ==
    FracCeil(FracDiv(start_time, FromInt(SECTION_LEN))) * SECTION_LEN

\* Strain::process(curr, diff_objects)
StrainProcess(strain, curr, diff_objects) ==
    IF strain.undefined \/ ~IsFinite(curr.start_time) \/ ~IsFinite(curr.delta_time)
       \/ curr.delta_time[1] < 0
    THEN \* non-finite time or negative delta: the values are undefined
         [strain EXCEPT !.undefined = TRUE, !.calls = @ + 1]
    ELSE LET prev_time == IF curr.idx = 0
                          THEN FracSub(curr.start_time, curr.delta_time)
                          ELSE diff_objects[curr.idx].start_time
             first == IF curr.idx = 0
                      THEN [strain EXCEPT !.curr_section_end = FirstSectionEnd(curr.start_time)]
                      ELSE strain
             closed == CloseSections(first, curr.start_time, prev_time)
             decayed == [c \in DOMAIN closed.individual |->
                            Decay(closed.individual[c], curr.delta_time)]
             individual == [decayed EXCEPT ![curr.column] = @ + 2000]
         IN [closed EXCEPT
                !.individual = individual,
                !.curr_section_peak = Max(@, TotalStrain(individual)),
                !.calls = @ + 1]

\* descending insertion sort of the peaks
RECURSIVE InsertDesc(_, _)
InsertDesc(sorted, v) ==
    IF sorted = <<>> THEN <<v>>
    ELSE IF v >= Head(sorted) THEN <<v>> \o sorted
    ELSE <<Head(sorted)>> \o InsertDesc(Tail(sorted), v)

RECURSIVE SortDesc(_)
SortDesc(peaks) ==
    IF peaks = <<>> THEN <<>> ELSE InsertDesc(SortDesc(Tail(peaks)), Head(peaks))

RECURSIVE WeightedSum(_, _)
WeightedSum(sorted, weight) ==
    IF sorted = <<>> THEN 0
    ELSE (Head(sorted) * weight) \div 1000 + WeightedSum(Tail(sorted), (weight * 9) \div 10)

\* Strain::difficulty_value(): the k-th largest peak weighs 0.9^k
difficulty_value(strain) == WeightedSum(SortDesc(strain.strain_peaks), 1000)

\* the value of a star rating computed from undefined strains
UndefinedStars == 0 - 1

\* strain.difficulty_value() * STAR_SCALING_FACTOR
Stars(strain) ==
    IF strain.undefined THEN UndefinedStars
    ELSE (difficulty_value(strain) * STAR_SCALING_FACTOR) \div 1000

\* for curr in diff_objects.iter() { strain.process(curr, &diff_objects) }
RECURSIVE ProcessFrom(_, _, _)
ProcessFrom(strain, diff_objects, k) ==
    IF k > Len(diff_objects) THEN strain
    ELSE ProcessFrom(StrainProcess(strain, diff_objects[k], diff_objects), diff_objects, k + 1)

calculate_strain_rate_checked(map, mods, passed_objects, clock_rate_opt) ==
    LET take == TakeCount(passed_objects, map.hit_objects)
        total_columns == TotalColumns(map.cs)
        clock_rate == ResolveClockRate(clock_rate_opt, mods)
        diff_objects == DiffObjects(map.hit_objects, take, clock_rate, total_columns)
    IN [strain |-> IF FracGT(clock_rate, <<0, 1>>)
                   THEN ProcessFrom(StrainNew(total_columns), diff_objects, 1)
                   ELSE StrainNew(total_columns),
        diff_objects |-> diff_objects,
        capacity |-> Capacity(map.hit_objects, take)]

\* calculate_strain(params): the strain, with the objects it was fed
calculate_strain(map, mods, passed_objects, clock_rate_opt) ==
    LET take == TakeCount(passed_objects, map.hit_objects)
        total_columns == TotalColumns(map.cs)
        clock_rate == ResolveClockRate(clock_rate_opt, mods)
        diff_objects == DiffObjects(map.hit_objects, take, clock_rate, total_columns)
    IN [strain |-> ProcessFrom(StrainNew(total_columns), diff_objects, 1),
        diff_objects |-> diff_objects,
        capacity |-> Capacity(map.hit_objects, take)]

\* ------------------------------------------------------------- the facade
VARIABLES map, params, pc, attrs, strains, run, hw_args, gradual, range, rescaled

vars == <<map, params, pc, attrs, strains, run, hw_args, gradual, range, rescaled>>

\* ManiaStars::new(map)
ManiaStarsNew ==
    [kind |-> "ManiaStars", map |-> "Borrowed", mods |-> 0,
     passed_objects |-> None, clock_rate |-> None]

\* OsuStars::new(map)
OsuStarsNew ==
    [kind |-> "OsuStars", map |-> "Borrowed", mods |-> 0,
     passed_objects |-> None, clock_rate |-> None]

\* Beatmap::convert_mode(GameMode::Mania): a native chart stays borrowed,
\* any other chart becomes an owned converted copy
ConvertMode(beatmap) == IF beatmap.mode = "Mania" THEN "Borrowed" ELSE "Owned"

IsConvertNever(cow) == FALSE

\* matches!(self.map, Cow::Owned(_))
IsConvert(cow) == cow = "Owned"

NoAttrs == [stars |-> 0, hit_window |-> <<0, 1>>]

NoStrains == [section_len |-> <<0, 1>>, strains |-> <<>>]

NoRun == [strain |-> StrainNew(1), diff_objects |-> <<>>, capacity |-> 0]

NoHitWindowArgs == [converted |-> FALSE, clock_rate |-> <<0, 1>>]

NoGradual == [idx |-> 0, strain |-> StrainNew(1), diff_objects |-> <<>>,
              hit_window |-> <<0, 1>>, out |-> <<>>]

NoRange == [val |-> <<0, 1>>, min |-> 0, avg |-> 0, max |-> 0,
            out |-> <<0, 1>>, od |-> <<0, 1>>, ar |-> <<0, 1>>]

NoRescaled == [c |-> 1, clock_rate |-> <<1, 1>>, take |-> 0,
               orig |-> <<>>, mul |-> <<>>, div |-> <<>>]

Init ==
    /\ map \in Beatmaps
    /\ params \in {ManiaStarsNew, OsuStarsNew}
    /\ map.mode = "Osu" => params.kind = "OsuStars"
    /\ pc = "config"
    /\ attrs = NoAttrs
    /\ strains = NoStrains
    /\ run = NoRun
    /\ hw_args = NoHitWindowArgs
    /\ gradual = NoGradual
    /\ range = NoRange
    /\ rescaled = NoRescaled

\* ManiaStars::mods / OsuStars::mods
Mods(mods) ==
    /\ pc = "config"
    /\ params' = [params EXCEPT !.mods = mods]
    /\ UNCHANGED <<map, pc, attrs, strains, run, hw_args, gradual, range, rescaled>>

\* ManiaStars::passed_objects
PassedObjects(passed_objects) ==
    /\ pc = "config"
    /\ params' = [params EXCEPT !.passed_objects = Some(passed_objects)]
    /\ UNCHANGED <<map, pc, attrs, strains, run, hw_args, gradual, range, rescaled>>

\* ManiaStars::clock_rate
ClockRate(clock_rate) ==
    /\ pc = "config"
    /\ params' = [params EXCEPT !.clock_rate = Some(clock_rate)]
    /\ UNCHANGED <<map, pc, attrs, strains, run, hw_args, gradual, range, rescaled>>

\* impl From<OsuStars> for ManiaStars
FromOsuStars ==
    /\ pc = "config"
    /\ params.kind = "OsuStars"
    /\ params' = [kind |-> "ManiaStars",
                  map |-> ConvertMode(map),
                  mods |-> params.mods,
                  passed_objects |-> params.passed_objects,
                  clock_rate |-> params.clock_rate]
    /\ UNCHANGED <<map, pc, attrs, strains, run, hw_args, gradual, range, rescaled>>

\* the value ManiaStars::calculate returns for a configuration
CalculateAttrs(beatmap, cow, mods, passed_objects, clock_rate_opt) ==
    LET is_convert == IsConvert(cow)
        clock_rate == ResolveClockRate(clock_rate_opt, mods)
        hit_window == HitWindowOd(beatmap, mods, is_convert, clock_rate)
        result == calculate_strain(beatmap, mods, passed_objects, clock_rate_opt)
    IN [stars |-> Stars(result.strain), hit_window |-> hit_window]

\* ManiaStars::calculate
Calculate ==
    /\ pc = "config"
    /\ params.kind = "ManiaStars"
    /\ hw_args' = [converted |-> IsConvert(params.map),
                   clock_rate |-> ResolveClockRate(params.clock_rate, params.mods)]
    /\ run' = calculate_strain(map, params.mods, params.passed_objects, params.clock_rate)
    /\ attrs' = CalculateAttrs(map, params.map, params.mods, params.passed_objects,
                               params.clock_rate)
    /\ pc' = "calculated"
    /\ UNCHANGED <<map, params, strains, gradual, range, rescaled>>

\* ManiaStars::strains
Strains ==
    /\ pc = "config"
    /\ params.kind = "ManiaStars"
    /\ LET clock_rate == ResolveClockRate(params.clock_rate, params.mods)
           result == calculate_strain(map, params.mods, params.passed_objects,
                                      params.clock_rate)
       IN /\ run' = result
          /\ strains' = [section_len |-> FracMul(FromInt(SECTION_LEN), clock_rate),
                         strains |-> result.strain.strain_peaks]
    /\ pc' = "strained"
    /\ UNCHANGED <<map, params, attrs, hw_args, gradual, range, rescaled>>

\* ManiaGradualDifficultyAttributes::new: all difficulty objects up front,
\* a fresh strain, nothing yielded yet
GradualNew ==
    /\ pc = "config"
    /\ params.kind = "ManiaStars"
    /\ params.passed_objects = None
    /\ LET clock_rate == ResolveClockRate(params.clock_rate, params.mods)
           total_columns == TotalColumns(map.cs)
       IN gradual' = [idx |-> 0,
                      strain |-> StrainNew(total_columns),
                      diff_objects |-> DiffObjects(map.hit_objects, Len(map.hit_objects),
                                                   clock_rate, total_columns),
                      hit_window |-> HitWindowOd(map, params.mods, IsConvert(params.map),
                                                 clock_rate),
                      out |-> <<>>]
    /\ pc' = "gradual"
    /\ UNCHANGED <<map, params, attrs, strains, run, hw_args, range, rescaled>>

\* Iterator::next of the gradual difficulty: one note per step; every note
\* after the first feeds its difficulty object to the strain
GradualNext ==
    /\ pc = "gradual"
    /\ gradual.idx < Len(map.hit_objects)
    /\ LET strain == IF gradual.idx = 0 THEN gradual.strain
                     ELSE StrainProcess(gradual.strain, gradual.diff_objects[gradual.idx],
                                        gradual.diff_objects)
       IN gradual' = [gradual EXCEPT
                         !.idx = @ + 1,
                         !.strain = strain,
                         !.out = Append(@, [stars |-> Stars(strain),
                                            hit_window |-> gradual.hit_window])]
    /\ UNCHANGED <<map, params, pc, attrs, strains, run, hw_args, range, rescaled>>

Next ==
    \/ \E mods \in ModsSet : Mods(mods)
    \/ \E passed_objects \in 0..(MaxNotes + 1) : PassedObjects(passed_objects)
    \/ \E clock_rate \in ClockRates : ClockRate(clock_rate)
    \/ FromOsuStars
    \/ Calculate
    \/ Strains
    \/ GradualNew
    \/ GradualNext

Spec == Init /\ [][Next]_vars

\* ------------------------------------------- the timing-window mapper alone
Settings == {Frac(k, 2) : k \in 0..20}

Windows == {0, 3, 20, 50}

DefaultMap == [hit_objects |-> <<>>, cs |-> 4, od |-> 8, mode |-> "Mania"]

InitRange ==
    /\ map = DefaultMap
    /\ params = ManiaStarsNew
    /\ pc = "range"
    /\ attrs = NoAttrs
    /\ strains = NoStrains
    /\ run = NoRun
    /\ hw_args = NoHitWindowArgs
    /\ gradual = NoGradual
    /\ range \in {[NoRange EXCEPT !.val = v, !.min = lo, !.avg = mid, !.max = hi] :
                     v \in Settings, lo \in Windows, mid \in Windows, hi \in Windows}
    /\ rescaled = NoRescaled

\* difficulty_range, difficulty_range_od and difficulty_range_ar on one setting
ApplyRange ==
    /\ pc = "range"
    /\ range' = [range EXCEPT
                    !.out = difficulty_range(range.val, range.max, range.avg, range.min),
                    !.od = difficulty_range_od(range.val),
                    !.ar = difficulty_range_ar(range.val)]
    /\ pc' = "ranged"
    /\ UNCHANGED <<map, params, attrs, strains, run, hw_args, gradual, rescaled>>

NextRange == ApplyRange

SpecRange == InitRange /\ [][NextRange]_vars

\* ------------------------------------------ the object builder under scaling
Scales == {2, 3}

PositiveRates == {<<3, 2>>, <<3, 4>>, <<1, 1>>, <<1, 2>>, <<2, 1>>}

ScaleTimes(hit_objects, c) ==
    [k \in DOMAIN hit_objects |-> [hit_objects[k] EXCEPT !.start_time = @ * c]]

InitScale ==
    /\ map \in {m \in Beatmaps : m.mode = "Mania"}
    /\ params = ManiaStarsNew
    /\ pc = "scale"
    /\ attrs = NoAttrs
    /\ strains = NoStrains
    /\ run = NoRun
    /\ hw_args = NoHitWindowArgs
    /\ gradual = NoGradual
    /\ range = NoRange
    /\ rescaled \in {[NoRescaled EXCEPT !.c = c, !.clock_rate = r, !.take = t] :
                        c \in Scales, r \in PositiveRates, t \in {MaxNotes - 1, MaxNotes}}

\* build the difficulty objects of the chart, of the chart scaled by c at
\* rate * c, and of the chart scaled by c at rate / c
Rescale ==
    /\ pc = "scale"
    /\ LET total_columns == TotalColumns(map.cs)
           c == FromInt(rescaled.c)
           scaled == ScaleTimes(map.hit_objects, rescaled.c)
       IN rescaled' = [rescaled EXCEPT
              !.orig = DiffObjects(map.hit_objects, rescaled.take, rescaled.clock_rate,
                                   total_columns),
              !.mul = DiffObjects(scaled, rescaled.take, FracMul(rescaled.clock_rate, c),
                                  total_columns),
              !.div = DiffObjects(scaled, rescaled.take, FracDiv(rescaled.clock_rate, c),
                                  total_columns)]
    /\ pc' = "scaled"
    /\ UNCHANGED <<map, params, attrs, strains, run, hw_args, gradual, range>>

NextScale == Rescale

SpecScale == InitScale /\ [][NextScale]_vars

\* ================================================================ claims
\* the configuration of the finished call, as the caller wrote it
NoteCount == Len(map.hit_objects)

Limit == IF params.passed_objects = None THEN NoteCount ELSE params.passed_objects[1]

ExpectedObjects == IF Min(Limit, NoteCount) >= 1 THEN Min(Limit, NoteCount) - 1 ELSE 0

ExpectedRate ==
    IF params.clock_rate # None THEN params.clock_rate[1]
    ELSE IF HasBit(params.mods, 64) THEN <<3, 2>>
    ELSE IF HasBit(params.mods, 256) THEN <<3, 4>>
    ELSE <<1, 1>>

RatePositive == FracGT(ExpectedRate, <<0, 1>>)

OneShotDone == pc \in {"calculated", "strained"}

\* C1: the one-shot calculation builds exactly max(min(p, N) - 1, 0)
\* difficulty objects, and the object with sequence index i has note i + 1 as
\* its base and note i as its predecessor
C1_ObjectPairing ==
    OneShotDone =>
        /\ Len(run.diff_objects) = ExpectedObjects
        /\ \A k \in 1..Len(run.diff_objects) :
              /\ run.diff_objects[k].idx = k - 1
              /\ run.diff_objects[k].base = map.hit_objects[k + 1]
              /\ run.diff_objects[k].base.id = k
              /\ run.diff_objects[k].prev = map.hit_objects[k]
              /\ run.diff_objects[k].prev.id = k - 1

C1_Witness ==
    /\ pc = "calculated"
    /\ NoteCount = 3
    /\ params.passed_objects = Some(2)
    /\ Len(run.diff_objects) = 1

C3_LimitClamped ==
    (OneShotDone /\ params.passed_objects # None /\ Limit >= NoteCount) =>
        /\ Len(run.diff_objects) = (IF NoteCount >= 1 THEN NoteCount - 1 ELSE 0)
        /\ run.capacity = Len(run.diff_objects)
        /\ run = calculate_strain(map, params.mods, None, params.clock_rate)
        /\ pc = "calculated" =>
              attrs = CalculateAttrs(map, params.map, params.mods, None, params.clock_rate)
        /\ pc = "strained" =>
              strains.strains =
                  calculate_strain(map, params.mods, None, params.clock_rate).strain.strain_peaks

C3_Witness ==
    /\ pc = "calculated"
    /\ NoteCount = 3
    /\ params.passed_objects = Some(4)
    /\ attrs.stars > 0

\* C4 as stated: with a resolved clock rate <= 0 no difficulty object is ever
\* passed to Strain::process
C4_NonPositiveRateRejected ==
    (OneShotDone /\ ~RatePositive) => run.strain.calls = 0

\* C4 amended: the rate is not checked; with a resolved clock rate <= 0
\* calculate() and strains() still pass every one of the max(min(p, N) - 1, 0)
\* difficulty objects to Strain::process
C4_NonPositiveRateProcessed ==
    (OneShotDone /\ ~RatePositive) =>
        /\ run.strain.calls = ExpectedObjects
        /\ run.strain.calls = Len(run.diff_objects)

C4_Witness ==
    /\ pc = "calculated"
    /\ params.clock_rate = Some(<<0, 1>>)
    /\ run.strain.calls = 2

\* C5: with a limit of 0 or 1 and a positive rate no difficulty object is
\* produced, Strain::process is never called and calculate() returns 0 stars
C5_ZeroObjectBaseline ==
    (OneShotDone /\ params.passed_objects \in {Some(0), Some(1)} /\ RatePositive) =>
        /\ run.diff_objects = <<>>
        /\ run.strain.calls = 0
        /\ run.strain.strain_peaks = <<>>
        /\ pc = "calculated" => attrs.stars = 0

C5_Witness ==
    /\ pc = "calculated"
    /\ NoteCount = 3
    /\ params.passed_objects = Some(1)
    /\ RatePositive
    /\ attrs.stars = 0

\* C6: the rate of a call is the explicit override when set, else 1.5 for DT,
\* 0.75 for HT and 1.0 otherwise; calculate() uses it for the hit window and
\* for the difficulty objects, strains() for the section length and for the
\* difficulty objects
C6_ResolvedRate ==
    /\ OneShotDone =>
          \A k \in 1..Len(run.diff_objects) :
              run.diff_objects[k].start_time =
                  FracDiv(FromInt(map.hit_objects[k + 1].start_time), ExpectedRate)
    /\ pc = "calculated" => hw_args.clock_rate = ExpectedRate
    /\ pc = "strained" => strains.section_len = FracMul(FromInt(SECTION_LEN), ExpectedRate)

C6_Witness ==
    /\ pc = "calculated"
    /\ params.mods = 8 + 64
    /\ params.clock_rate = Some(<<1, 2>>)
    /\ Len(run.diff_objects) = 2
    /\ run.diff_objects[2].start_time = <<600, 1>>

Timings(objects) ==
    [k \in DOMAIN objects |-> <<objects[k].start_time, objects[k].delta_time>>]

\* C8 as stated: timestamps scaled by c and the rate divided by c give the
\* same rate-adjusted start and delta times
C8_ScaleAndDivideRate ==
    pc = "scaled" => Timings(rescaled.div) = Timings(rescaled.orig)

\* C8 amended: timestamps scaled by c and the rate multiplied by c give the
\* same rate-adjusted start and delta times
C8_ScaleAndMultiplyRate ==
    pc = "scaled" => Timings(rescaled.mul) = Timings(rescaled.orig)

C8_Witness ==
    /\ pc = "scaled"
    /\ rescaled.c = 3
    /\ rescaled.clock_rate = <<3, 2>>
    /\ Len(rescaled.orig) = 2
    /\ rescaled.orig[2].delta_time = <<100, 1>>
    /\ rescaled.mul[2].base.start_time = 3 * rescaled.orig[2].base.start_time

\* rate-adjusted time of the k-th note (1-based)
NoteTime(k) == FracDiv(FromInt(map.hit_objects[k].start_time), ExpectedRate)

CompletePass ==
    pc = "strained" /\ params.passed_objects = None /\ RatePositive /\ NoteCount >= 2

FirstBoundary == FracCeil(FracDiv(NoteTime(2), FromInt(SECTION_LEN))) * SECTION_LEN

LastProcessed == NoteTime(Min(Limit, NoteCount))

====
